---- MODULE Spec2Model ----
(***************************************************************************)
(* Model of apprelay/src/lib.rs: the foreign-function boundary around the  *)
(* OHTTP client.  A RequestContext and a ResponseContext are heap boxes    *)
(* handed to the caller as raw pointers; the caller passes them back by    *)
(* value (Box<T>), so every boundary function owns the box it is given and *)
(* either gives it back (Box::into_raw) or drops it at its closing brace.  *)
(*                                                                         *)
(* The ohttp crate is an external collaborator.  It is modelled by a       *)
(* deterministic stub whose outcome (Ok, Err, panic) is a function of its  *)
(* input bytes, so that every path of the boundary code is exercised.      *)
(***************************************************************************)
EXTENDS Integers, Sequences, FiniteSets, TLC

\* ---------------------------------------------------------------- bounds
\* Number of RequestContext boxes the allocator hands out in one behaviour.
MaxRequests == 2

\* ------------------------------------------------------- input alphabets
Threads == {"A", "B"}

\* First byte on which the stub engine panics.
FaultByte == 255
\* First byte of a message the stub engine refuses to encapsulate.
RejectByte == 254
\* Key identifiers the stub engine supports.
KeyIds == {1}
\* A key identifier of some other configuration.
ForeignKey == 2

Ping == <<112, 105, 110, 103>>

Configs == {<<>>, <<9>>, <<FaultByte>>, <<1>>}
Messages == {<<>>, <<RejectByte>>, <<FaultByte>>, Ping}

NULL == 0
ReqIds == 1..MaxRequests
RespIds == 1..MaxRequests

\* ------------------------------------------------- stub Protocol Engine
Ok(v) == [tag |-> "Ok", val |-> v]
Err(e) == [tag |-> "Err", val |-> e]
Panic == [tag |-> "Panic", val |-> "panic"]

Shift(s, k) == [i \in DOMAIN s |-> (s[i] + k) % 256]
Unshift(s, k) == [i \in DOMAIN s |-> (s[i] + 256 - k) % 256]

\* ohttp::ClientRequest::new(encoded_config)
ClientRequest_new(encoded_config) ==
    IF Len(encoded_config) = 0 THEN Err("Truncated")
    ELSE IF encoded_config[1] = FaultByte THEN Panic
    ELSE IF encoded_config[1] \notin KeyIds THEN Err("Unsupported")
    ELSE Ok([key |-> encoded_config[1]])

\* ohttp::ClientRequest::encapsulate(self, encoded_msg)
ClientRequest_encapsulate(client, encoded_msg) ==
    IF Len(encoded_msg) > 0 /\ encoded_msg[1] = FaultByte THEN Panic
    ELSE IF Len(encoded_msg) > 0 /\ encoded_msg[1] = RejectByte THEN Err("Hpke")
    ELSE Ok([enc_request |-> <<client.key>> \o Shift(encoded_msg, client.key),
             client_response |-> [key |-> client.key]])

\* ohttp::ClientResponse::decapsulate(self, encapsulated_response)
ClientResponse_decapsulate(response_context, encapsulated_response) ==
    IF Len(encapsulated_response) = 0 THEN Err("Truncated")
    ELSE IF encapsulated_response[1] = FaultByte THEN Panic
    ELSE IF encapsulated_response[1] # response_context.key THEN Err("Aead")
    ELSE Ok(Unshift(Tail(encapsulated_response), response_context.key + 1))

\* The gateway of the stub: it opens the request and answers with the same
\* bytes, sealed for the response direction.
StubGateway(enc_request) ==
    <<Head(enc_request)>>
        \o Shift(Unshift(Tail(enc_request), Head(enc_request)), Head(enc_request) + 1)

Responses ==
    {<<>>, <<FaultByte>>, StubGateway(<<ForeignKey>> \o Shift(Ping, ForeignKey))} \cup
    {StubGateway(<<k>> \o Shift(m, k)) : k \in KeyIds, m \in {<<>>, Ping}}

\* ------------------------------------------------------------ ClientError
NoError == [kind |-> "None", source |-> "None"]
RequestContextInitialization(e) == [kind |-> "RequestContextInitialization", source |-> e]
EncapsulationFailed(e) == [kind |-> "EncapsulationFailed", source |-> e]
DecapsulationFailed(e) == [kind |-> "DecapsulationFailed", source |-> e]
InvalidArgument(a) == [kind |-> "InvalidArgument", source |-> a]

\* ------------------------------------------------------------------ state
VARIABLES
    requests,     \* heap: one slot per RequestContext box
    responses,    \* heap: one slot per ResponseContext box
    held,         \* request handles the caller owns (move-only convention)
    heldResp,     \* response handles the caller owns
    LAST_ERROR,   \* the thread-local error slot, one per thread
    process,      \* "running", "aborted" or "unwound"
    last          \* the most recent boundary call and what it returned

vars == <<requests, responses, held, heldResp, LAST_ERROR, process, last>>

NoCap == [key |-> 0]
Unallocated == [st |-> "unallocated", encapsulated_request |-> <<>>,
                response_context |-> NoCap, drops |-> 0]
NoResponse == [st |-> "unallocated", response |-> <<>>]

NoView == [addr |-> NULL, bytes |-> <<>>]

\* What the foreign caller observes of one boundary call.
Call(op, t, h) ==
    [op |-> op, thread |-> t, handle |-> h,
     config |-> <<>>, msg |-> <<>>, resp |-> <<>>, cap |-> NoCap,
     returned |-> TRUE, ret |-> NULL, data |-> NoView, len |-> 0,
     writes |-> 0]

NoCall == Call("none", "A", NULL)

Init ==
    /\ requests = [h \in ReqIds |-> Unallocated]
    /\ responses = [h \in RespIds |-> NoResponse]
    /\ held = {}
    /\ heldResp = {}
    /\ LAST_ERROR = [t \in Threads |-> NoError]
    /\ process = "running"
    /\ last = NoCall

\* --------------------------------------------------------------- helpers

\* Variant: one process-wide slot instead of a thread-local one.
update_global_error(slots, t, err) == [u \in DOMAIN slots |-> err]

\* error_ffi::update_last_error: overwrite the calling thread's slot.
update_last_error(slots, t, err) == [slots EXCEPT ![t] = err]

Min(S) == CHOOSE x \in S : \A y \in S : x <= y

\* Box::new(RequestContext {..}) followed by Box::into_raw: a fresh address.
FreeReqIds == {h \in ReqIds : requests[h].st = "unallocated"}
FreeRespIds == {h \in RespIds : responses[h].st = "unallocated"}

BoxRequestContext(heap, h, enc_request, client_response) ==
    [heap EXCEPT ![h] = [st |-> "live", encapsulated_request |-> enc_request,
                         response_context |-> client_response, drops |-> 0]]

\* Variant: the response buffer loses its first byte when it is boxed.
BoxResponseContextTruncated(heap, h, response) ==
    [heap EXCEPT ![h] = [st |-> "live",
                         response |-> IF response = <<>> THEN <<>> ELSE Tail(response)]]


BoxResponseContext(heap, h, response) ==
    [heap EXCEPT ![h] = [st |-> "live", response |-> response]]

\* Variant: the box is forgotten instead of dropped (mem::forget).
ForgetRequestContext(heap, h) == heap

\* Variant: the drop releases every live RequestContext, not only its own.
DropEveryRequestContext(heap, h) ==
    [g \in DOMAIN heap |->
        IF g = h \/ heap[g].st = "live"
        THEN [st |-> "freed", encapsulated_request |-> <<>>,
              response_context |-> NoCap,
              drops |-> IF heap[g].drops < 2 THEN heap[g].drops + 1 ELSE 2]
        ELSE heap[g]]

\* A Box<RequestContext> goes out of scope: buffer and capability are freed.
\* Dropping a box that is already freed is a double free; it is counted.
DropRequestContext(heap, h) ==
    [heap EXCEPT ![h] = [st |-> "freed", encapsulated_request |-> <<>>,
                         response_context |-> NoCap,
                         drops |-> IF heap[h].drops < 2 THEN heap[h].drops + 1 ELSE 2]]

\* Variant: the accessor lets its Box argument go out of scope.
DropInAccessor(heap, h) ==
    [heap EXCEPT ![h] = [st |-> "freed", encapsulated_request |-> <<>>,
                         response_context |-> NoCap,
                         drops |-> IF heap[h].drops < 2 THEN heap[h].drops + 1 ELSE 2]]

\* Box::into_raw(context): the box is given back to the caller, not dropped.
IntoRawRequest(heap, h) == heap

\* Variant: the response accessor lets its Box argument go out of scope.
DropResponseInAccessor(heap, h) ==
    [heap EXCEPT ![h] = [st |-> "freed", response |-> <<>>]]

\* Variant: the response accessor takes the buffer out of the box.
TakeResponseInAccessor(heap, h) == [heap EXCEPT ![h].response = <<>>]


IntoRawResponse(heap, h) == heap

\* Variant: the first arm reports the variant of the second arm.
InitializationFailedAsEncapsulation(slots, t, err) ==
    update_last_error(slots, t, EncapsulationFailed(err))

\* Variant: a zero-length configuration is reported as an invalid argument.
InitializationFailedInvalidArgument(slots, t, err) ==
    IF err = "Truncated"
    THEN update_last_error(slots, t, InvalidArgument("encoded_config"))
    ELSE update_last_error(slots, t, RequestContextInitialization(err))

\* The failure arms of the three matches, and the arms that succeed.
InitializationFailed(slots, t, err) ==
    update_last_error(slots, t, RequestContextInitialization(err))

\* Variant: the arm returns null without calling update_last_error.
EncapsulateFailedUnrecorded(slots, t, err) == slots

\* Variant: the second arm reports the variant of the first arm.
EncapsulateFailedAsInitialization(slots, t, err) ==
    update_last_error(slots, t, RequestContextInitialization(err))


EncapsulateFailed(slots, t, err) ==
    update_last_error(slots, t, EncapsulationFailed(err))

\* Variant: the arm returns null without calling update_last_error.
DecapsulateFailedUnrecorded(slots, t, err) == slots


DecapsulateFailed(slots, t, err) ==
    update_last_error(slots, t, DecapsulationFailed(err))

\* Variant: the success path resets the caller's slot.
EncapsulateSucceededClearing(slots, t) == update_last_error(slots, t, NoError)

EncapsulateSucceeded(slots, t) == slots

DecapsulateSucceeded(slots, t) == slots

\* A panic of the engine is not caught (there is no catch_unwind): the
\* extern "C" frame either aborts the process or is unwound into the caller.
PanicOutcomes == {"aborted", "unwound"}

\* ---------------------------------------------------------------- actions

\* Variant: the message is tried before the configuration is looked at, and
\* a rejected configuration is reported after a rejected message.
encapsulate_message_first(t, encoded_config, encoded_msg) ==
    /\ process = "running"
    /\ LET client == ClientRequest_new(encoded_config)
           probe == ClientRequest_encapsulate(NoCap, encoded_msg)
           call == [Call("encapsulate", t, NULL) EXCEPT
                        !.config = encoded_config, !.msg = encoded_msg]
       IN  CASE probe.tag = "Panic" \/ client.tag = "Panic" ->
                    /\ process' \in PanicOutcomes
                    /\ last' = [call EXCEPT !.returned = FALSE]
                    /\ UNCHANGED <<requests, responses, held, heldResp, LAST_ERROR>>
             [] probe.tag = "Err" /\ client.tag # "Panic" ->
                    /\ LAST_ERROR' = EncapsulateFailed(LAST_ERROR, t, probe.val)
                    /\ last' = [call EXCEPT !.writes = 1]
                    /\ UNCHANGED <<requests, responses, held, heldResp, process>>
             [] probe.tag = "Ok" /\ client.tag = "Err" ->
                    /\ LAST_ERROR' = InitializationFailed(LAST_ERROR, t, client.val)
                    /\ last' = [call EXCEPT !.writes = 1]
                    /\ UNCHANGED <<requests, responses, held, heldResp, process>>
             [] probe.tag = "Ok" /\ client.tag = "Ok" ->
                    /\ FreeReqIds # {}
                    /\ LET ctx == Min(FreeReqIds)
                           encapsulated == ClientRequest_encapsulate(client.val, encoded_msg)
                       IN  /\ requests' = BoxRequestContext(requests, ctx,
                                              encapsulated.val.enc_request,
                                              encapsulated.val.client_response)
                           /\ held' = held \cup {ctx}
                           /\ last' = [call EXCEPT !.ret = ctx]
                    /\ LAST_ERROR' = EncapsulateSucceeded(LAST_ERROR, t)
                    /\ UNCHANGED <<responses, heldResp, process>>


encapsulate_request_ffi(t, encoded_config, encoded_msg) ==
    /\ process = "running"
    /\ LET client == ClientRequest_new(encoded_config)
           call == [Call("encapsulate", t, NULL) EXCEPT
                        !.config = encoded_config, !.msg = encoded_msg]
       IN  CASE client.tag = "Err" ->
                    /\ LAST_ERROR' = InitializationFailed(LAST_ERROR, t, client.val)
                    /\ last' = [call EXCEPT !.writes = 1]
                    /\ UNCHANGED <<requests, responses, held, heldResp, process>>
             [] client.tag = "Panic" ->
                    /\ process' \in PanicOutcomes
                    /\ last' = [call EXCEPT !.returned = FALSE]
                    /\ UNCHANGED <<requests, responses, held, heldResp, LAST_ERROR>>
             [] client.tag = "Ok" ->
                    LET encapsulated == ClientRequest_encapsulate(client.val, encoded_msg)
                    IN  CASE encapsulated.tag = "Err" ->
                                 /\ LAST_ERROR' = EncapsulateFailed(LAST_ERROR, t, encapsulated.val)
                                 /\ last' = [call EXCEPT !.writes = 1]
                                 /\ UNCHANGED <<requests, responses, held, heldResp, process>>
                          [] encapsulated.tag = "Panic" ->
                                 /\ process' \in PanicOutcomes
                                 /\ last' = [call EXCEPT !.returned = FALSE]
                                 /\ UNCHANGED <<requests, responses, held, heldResp, LAST_ERROR>>
                          [] encapsulated.tag = "Ok" ->
                                 /\ FreeReqIds # {}
                                 /\ LET ctx == Min(FreeReqIds)
                                    IN  /\ requests' = BoxRequestContext(requests, ctx,
                                                           encapsulated.val.enc_request,
                                                           encapsulated.val.client_response)
                                        /\ held' = held \cup {ctx}
                                        /\ last' = [call EXCEPT !.ret = ctx]
                                 /\ LAST_ERROR' = EncapsulateSucceeded(LAST_ERROR, t)
                                 /\ UNCHANGED <<responses, heldResp, process>>

decapsulate_response_ffi(t, context, encapsulated_response) ==
    /\ process = "running"
    /\ context \in held
    /\ LET response == ClientResponse_decapsulate(requests[context].response_context,
                                                  encapsulated_response)
           call == [Call("decapsulate", t, context) EXCEPT
                        !.resp = encapsulated_response,
                        !.cap = requests[context].response_context]
       IN  CASE response.tag = "Err" ->
                    /\ LAST_ERROR' = DecapsulateFailed(LAST_ERROR, t, response.val)
                    /\ requests' = DropRequestContext(requests, context)
                    /\ held' = held \ {context}
                    /\ last' = [call EXCEPT !.writes = 1]
                    /\ UNCHANGED <<responses, heldResp, process>>
             [] response.tag = "Panic" ->
                    \E outcome \in PanicOutcomes :
                        /\ process' = outcome
                        /\ last' = [call EXCEPT !.returned = FALSE]
                        /\ IF outcome = "unwound"
                           THEN /\ requests' = DropRequestContext(requests, context)
                                /\ held' = held \ {context}
                           ELSE UNCHANGED <<requests, held>>
                        /\ UNCHANGED <<responses, heldResp, LAST_ERROR>>
             [] response.tag = "Ok" ->
                    /\ FreeRespIds # {}
                    /\ LET rsp == Min(FreeRespIds)
                       IN  /\ responses' = BoxResponseContext(responses, rsp, response.val)
                           /\ heldResp' = heldResp \cup {rsp}
                           /\ last' = [call EXCEPT !.ret = rsp]
                    /\ requests' = DropRequestContext(requests, context)
                    /\ held' = held \ {context}
                    /\ LAST_ERROR' = DecapsulateSucceeded(LAST_ERROR, t)
                    /\ UNCHANGED process

request_context_message_ffi(t, context) ==
    /\ process = "running"
    /\ context \in held
    /\ requests' = IntoRawRequest(requests, context)
    /\ last' = [Call("request_data", t, context) EXCEPT
                    !.data = [addr |-> context,
                              bytes |-> requests[context].encapsulated_request]]
    /\ UNCHANGED <<responses, held, heldResp, LAST_ERROR, process>>

request_context_message_len_ffi(t, context) ==
    /\ process = "running"
    /\ context \in held
    /\ requests' = IntoRawRequest(requests, context)
    /\ last' = [Call("request_length", t, context) EXCEPT
                    !.len = Len(requests[context].encapsulated_request)]
    /\ UNCHANGED <<responses, held, heldResp, LAST_ERROR, process>>

\* Variant: the release also resets the caller's error slot.
request_context_message_drop_clearing(t, context) ==
    /\ process = "running"
    /\ context \in held
    /\ requests' = DropRequestContext(requests, context)
    /\ held' = held \ {context}
    /\ last' = Call("release_request", t, context)
    /\ LAST_ERROR' = update_last_error(LAST_ERROR, t, NoError)
    /\ UNCHANGED <<responses, heldResp, process>>

request_context_message_drop_ffi(t, context) ==
    /\ process = "running"
    /\ context \in held
    /\ requests' = DropRequestContext(requests, context)
    /\ held' = held \ {context}
    /\ last' = Call("release_request", t, context)
    /\ UNCHANGED <<responses, heldResp, LAST_ERROR, process>>

response_context_message_ffi(t, context) ==
    /\ process = "running"
    /\ context \in heldResp
    /\ responses' = IntoRawResponse(responses, context)
    /\ last' = [Call("response_data", t, context) EXCEPT
                    !.data = [addr |-> context, bytes |-> responses[context].response]]
    /\ UNCHANGED <<requests, held, heldResp, LAST_ERROR, process>>

response_context_message_len_ffi(t, context) ==
    /\ process = "running"
    /\ context \in heldResp
    /\ responses' = IntoRawResponse(responses, context)
    /\ last' = [Call("response_length", t, context) EXCEPT
                    !.len = Len(responses[context].response)]
    /\ UNCHANGED <<requests, held, heldResp, LAST_ERROR, process>>

Next ==
    \/ \E t \in Threads, c \in Configs, m \in Messages : encapsulate_request_ffi(t, c, m)
    \/ \E t \in Threads, h \in ReqIds, r \in Responses : decapsulate_response_ffi(t, h, r)
    \/ \E t \in Threads, h \in ReqIds : request_context_message_ffi(t, h)
    \/ \E t \in Threads, h \in ReqIds : request_context_message_len_ffi(t, h)
    \/ \E t \in Threads, h \in ReqIds : request_context_message_drop_ffi(t, h)
    \/ \E t \in Threads, h \in RespIds : response_context_message_ffi(t, h)
    \/ \E t \in Threads, h \in RespIds : response_context_message_len_ffi(t, h)

Spec == Init /\ [][Next]_vars

TypeOK ==
    /\ held \subseteq ReqIds
    /\ heldResp \subseteq RespIds
    /\ process \in {"running", "aborted", "unwound"}
    /\ \A h \in ReqIds : requests[h].st \in {"unallocated", "live", "freed"}
    /\ \A h \in RespIds : responses[h].st \in {"unallocated", "live", "freed"}

\* ================================================================ claims
FallibleOps == {"encapsulate", "decapsulate"}
RequestAccessors == {"request_data", "request_length"}
ResponseAccessors == {"response_data", "response_length"}

\* The record the engine's answers call for, computed from the inputs of
\* the call alone; NoError when no engine step fails.
ExpectedRecord(call) ==
    IF call.op = "encapsulate"
    THEN LET client == ClientRequest_new(call.config)
         IN  IF client.tag = "Err" THEN RequestContextInitialization(client.val)
             ELSE IF client.tag = "Panic" THEN NoError
             ELSE LET e == ClientRequest_encapsulate(client.val, call.msg)
                  IN  IF e.tag = "Err" THEN EncapsulationFailed(e.val) ELSE NoError
    ELSE LET r == ClientResponse_decapsulate(call.cap, call.resp)
         IN  IF r.tag = "Err" THEN DecapsulationFailed(r.val) ELSE NoError

\* TRUE when the engine panics on the inputs of the call.
EnginePanics(call) ==
    IF call.op = "encapsulate"
    THEN LET client == ClientRequest_new(call.config)
         IN  \/ client.tag = "Panic"
             \/ /\ client.tag = "Ok"
                /\ ClientRequest_encapsulate(client.val, call.msg).tag = "Panic"
    ELSE ClientResponse_decapsulate(call.cap, call.resp).tag = "Panic"

\* C1: when encapsulate or decapsulate returns null, the calling thread's
\* error slot holds the record of exactly that call's failure (the variant
\* of the failing step, wrapping the engine's error); a non-null return
\* happens only when no engine step failed.
C1_NullMeansRecordedFailure ==
    (last.op \in FallibleOps /\ last.returned) =>
        /\ last.ret = NULL =>
              /\ ExpectedRecord(last) # NoError
              /\ LAST_ERROR[last.thread] = ExpectedRecord(last)
        /\ last.ret # NULL => ExpectedRecord(last) = NoError

C1_Witness ==
    /\ last.op = "decapsulate" /\ last.returned /\ last.ret = NULL
    /\ last.thread = "B"
    /\ LAST_ERROR["B"] = DecapsulationFailed("Aead")
    /\ LAST_ERROR["A"] = EncapsulationFailed("Hpke")

\* C2: after decapsulate returns, with a response handle or with null, the
\* RequestContext it was given is freed (buffer and capability, exactly
\* once) and the caller no longer holds it.
C2_DecapsulateConsumesRequest ==
    (last.op = "decapsulate" /\ last.returned) =>
        /\ requests[last.handle].st = "freed"
        /\ requests[last.handle].drops = 1
        /\ requests[last.handle].encapsulated_request = <<>>
        /\ requests[last.handle].response_context = NoCap
        /\ last.handle \notin held

C2_Witness ==
    /\ last.op = "decapsulate" /\ last.returned /\ last.ret = NULL
    /\ requests[last.handle].st = "freed"
    /\ \E h \in ReqIds : h # last.handle /\ requests[h].st = "freed" /\ heldResp # {}

\* C3: every live ResponseContext has a release transition: some boundary
\* operation is enabled that deallocates it.
C3_ResponseCanBeReleased ==
    \A r \in RespIds :
        (process = "running" /\ responses[r].st = "live") =>
            ENABLED (Next /\ responses'[r].st # "live")

\* C4: an accessor call changes neither heap nor ownership: the handle it
\* was given is still live, still held by the caller, and its buffer is the
\* same as before the call.
C4_AccessorsBorrow ==
    [][(last'.op \in RequestAccessors \cup ResponseAccessors) =>
          /\ requests' = requests
          /\ responses' = responses
          /\ held' = held
          /\ heldResp' = heldResp
          /\ last'.op \in RequestAccessors =>
                 /\ last'.handle \in held'
                 /\ requests'[last'.handle].st = "live"
          /\ last'.op \in ResponseAccessors =>
                 /\ last'.handle \in heldResp'
                 /\ responses'[last'.handle].st = "live"]_vars

C4_Witness ==
    /\ last.op = "request_data"
    /\ last.handle \in held
    /\ requests[last.handle].st = "live"
    /\ last.data.bytes = requests[last.handle].encapsulated_request
    /\ Len(last.data.bytes) = 5
    /\ heldResp # {}

\* C5: when the engine panics inside encapsulate or decapsulate, the call
\* still returns, with null and a record in the calling thread's slot.
C5_PanicIsCaught ==
    (last.op \in FallibleOps /\ EnginePanics(last)) =>
        /\ last.returned
        /\ last.ret = NULL
        /\ LAST_ERROR[last.thread] # NoError
        /\ process = "running"

\* C6: encapsulate with a configuration the engine rejects returns null and
\* records RequestContextInitialization, whatever the message; it creates
\* no RequestContext and changes nothing the caller would have to release.
C6_RejectedConfiguration ==
    [][(last'.op = "encapsulate" /\ ClientRequest_new(last'.config).tag = "Err") =>
          /\ last'.returned
          /\ last'.ret = NULL
          /\ LAST_ERROR'[last'.thread]
                 = RequestContextInitialization(ClientRequest_new(last'.config).val)
          /\ requests' = requests
          /\ responses' = responses
          /\ held' = held
          /\ heldResp' = heldResp]_vars

C6_Witness ==
    /\ last.op = "encapsulate" /\ last.config = <<9>> /\ last.msg = <<RejectByte>>
    /\ last.ret = NULL
    /\ LAST_ERROR[last.thread] = RequestContextInitialization("Unsupported")
    /\ held = {}
    /\ \A h \in ReqIds : requests[h].st = "unallocated"

\* C7: a RequestContext is consumed at most once: it is never freed twice,
\* it is live exactly while the caller holds it, and once freed it stays
\* freed and is never held again.
C7_ConsumedOnce ==
    /\ [](\A h \in ReqIds :
            /\ requests[h].drops <= 1
            /\ (h \in held) <=> (requests[h].st = "live")
            /\ (requests[h].st = "freed") <=> (requests[h].drops = 1))
    /\ [][\A h \in ReqIds :
            requests[h].st = "freed" =>
                (requests'[h].st = "freed" /\ h \notin held')]_vars

C7_Witness ==
    /\ last.op = "release_request"
    /\ \A h \in ReqIds : requests[h].st = "freed" /\ requests[h].drops = 1
    /\ heldResp # {}

\* C8: release_request frees the live RequestContext it is given and leaves
\* the error slot of every thread as it was.
C8_ReleaseLeavesErrors ==
    [][(last'.op = "release_request") =>
          /\ requests[last'.handle].st = "live"
          /\ requests'[last'.handle].st = "freed"
          /\ last'.handle \notin held'
          /\ LAST_ERROR' = LAST_ERROR]_vars

C8_Witness ==
    /\ last.op = "release_request"
    /\ requests[last.handle].st = "freed"
    /\ LAST_ERROR[last.thread] = EncapsulationFailed("Hpke")
    /\ \E t \in Threads : LAST_ERROR[t] = NoError

\* C9: a call of encapsulate or decapsulate that returns a handle writes no
\* error slot, so an earlier record survives it; a call that returns null
\* replaces the caller's record by its own.
C9_ErrorsWrittenOnFailureOnly ==
    [][(last'.op \in FallibleOps /\ last'.returned) =>
          /\ last'.ret # NULL => LAST_ERROR' = LAST_ERROR
          /\ last'.ret = NULL =>
                 /\ LAST_ERROR'[last'.thread] = ExpectedRecord(last')
                 /\ LAST_ERROR'[last'.thread] # NoError]_vars

C9_Witness ==
    /\ last.op = "encapsulate" /\ last.returned /\ last.ret # NULL
    /\ LAST_ERROR[last.thread] = DecapsulationFailed("Truncated")

\* C10: a call on one thread never changes the error slot of another
\* thread, and a call that returns a handle changes no slot at all.
C10_ThreadIsolation ==
    [][(last'.op # "none") =>
          /\ \A u \in Threads \ {last'.thread} : LAST_ERROR'[u] = LAST_ERROR[u]
          /\ (last'.op \in FallibleOps /\ last'.returned /\ last'.ret # NULL) =>
                 \A u \in Threads : LAST_ERROR'[u] = LAST_ERROR[u]]_vars

C10_Witness ==
    /\ last.op \in FallibleOps /\ last.thread = "B" /\ last.returned /\ last.ret # NULL
    /\ LAST_ERROR["B"] = NoError
    /\ LAST_ERROR["A"] # NoError

\* What the gateway reads when it opens an encapsulated request: the bytes
\* of the message that was encapsulated.
GatewayOpen(enc_request) == Unshift(Tail(enc_request), Head(enc_request))

\* The pair of ciphertext and capability the engine produces for an
\* accepted configuration and message.
EngineEncapsulated(config, msg) ==
    ClientRequest_encapsulate(ClientRequest_new(config).val, msg).val

\* C11: round trip.  A successful encapsulate returns a handle whose buffer
\* is exactly the engine's ciphertext for the configuration and message (and
\* opens to that message); the request accessors return that buffer and its
\* length; decapsulate of the handle with the gateway's matching response
\* returns a response handle whose buffer is exactly the original message;
\* the response accessors return that buffer and its length.
C11_RoundTrip ==
    /\ []((last.op = "encapsulate" /\ last.returned /\ last.ret # NULL) =>
            /\ requests[last.ret].st = "live"
            /\ requests[last.ret].encapsulated_request
                   = EngineEncapsulated(last.config, last.msg).enc_request
            /\ requests[last.ret].response_context
                   = EngineEncapsulated(last.config, last.msg).client_response
            /\ GatewayOpen(requests[last.ret].encapsulated_request) = last.msg)
    /\ [](/\ last.op = "request_data" =>
                last.data = [addr |-> last.handle,
                             bytes |-> requests[last.handle].encapsulated_request]
          /\ last.op = "request_length" =>
                last.len = Len(requests[last.handle].encapsulated_request)
          /\ last.op = "response_data" =>
                last.data = [addr |-> last.handle,
                             bytes |-> responses[last.handle].response]
          /\ last.op = "response_length" =>
                last.len = Len(responses[last.handle].response))
    /\ [][(/\ last'.op = "decapsulate"
           /\ last'.resp = StubGateway(requests[last'.handle].encapsulated_request)) =>
              /\ last'.returned
              /\ last'.ret # NULL
              /\ responses'[last'.ret].st = "live"
              /\ responses'[last'.ret].response
                     = GatewayOpen(requests[last'.handle].encapsulated_request)]_vars

C11_Witness ==
    /\ last.op = "response_length"
    /\ last.len = 4
    /\ responses[last.handle].st = "live"
    /\ responses[last.handle].response = Ping

\* C12: when the engine rejects the response ciphertext, decapsulate returns
\* null, records DecapsulationFailed wrapping the engine's error, creates no
\* ResponseContext, and has consumed the request handle: it is freed, the
\* caller no longer holds it, and decapsulate cannot be called on it again.
C12_FailedDecapsulateConsumes ==
  /\ []((last.op = "decapsulate" /\ last.returned /\ last.ret = NULL) =>
          \A t \in Threads, r \in Responses :
              ~ ENABLED decapsulate_response_ffi(t, last.handle, r))
  /\ [][(/\ last'.op = "decapsulate"
        /\ ClientResponse_decapsulate(requests[last'.handle].response_context,
                                      last'.resp).tag = "Err") =>
          /\ last'.returned
          /\ last'.ret = NULL
          /\ LAST_ERROR'[last'.thread]
                 = DecapsulationFailed(
                       ClientResponse_decapsulate(requests[last'.handle].response_context,
                                                  last'.resp).val)
          /\ responses' = responses
          /\ heldResp' = heldResp
          /\ requests[last'.handle].st = "live"
          /\ requests'[last'.handle].st = "freed"
          /\ requests'[last'.handle].response_context = NoCap
          /\ last'.handle \notin held']_vars

C12_Witness ==
    /\ last.op = "decapsulate" /\ last.returned /\ last.ret = NULL
    /\ last.resp = StubGateway(<<ForeignKey>> \o Shift(Ping, ForeignKey))
    /\ LAST_ERROR[last.thread] = DecapsulationFailed("Aead")
    /\ requests[last.handle].st = "freed"
    /\ \A r \in RespIds : responses[r].st = "unallocated"

\* C13: when the configuration is accepted and the engine fails to
\* encapsulate the message, encapsulate returns null, records
\* EncapsulationFailed wrapping the engine's error, and allocates nothing:
\* no RequestContext and no capability exists that did not exist before.
C13_FailedEncapsulateLeavesNothing ==
    [][(/\ last'.op = "encapsulate"
        /\ ClientRequest_new(last'.config).tag = "Ok"
        /\ ClientRequest_encapsulate(ClientRequest_new(last'.config).val,
                                     last'.msg).tag = "Err") =>
          /\ last'.returned
          /\ last'.ret = NULL
          /\ LAST_ERROR'[last'.thread]
                 = EncapsulationFailed(
                       ClientRequest_encapsulate(ClientRequest_new(last'.config).val,
                                                 last'.msg).val)
          /\ requests' = requests
          /\ responses' = responses
          /\ held' = held
          /\ heldResp' = heldResp]_vars

C13_Witness ==
    /\ last.op = "encapsulate" /\ last.returned /\ last.ret = NULL
    /\ last.config = <<1>> /\ last.msg = <<RejectByte>>
    /\ LAST_ERROR[last.thread] = EncapsulationFailed("Hpke")
    /\ held = {}
    /\ \A h \in ReqIds : requests[h].st = "unallocated"

RequestOps == RequestAccessors \cup {"release_request", "decapsulate"}

\* C14: an operation on one handle changes no other handle, whichever
\* thread makes it: every other RequestContext keeps its liveness, buffer
\* and capability and stays held or not held as before, and every
\* ResponseContext that exists keeps its liveness and buffer.
C14_HandlesIndependent ==
    [][/\ last'.op \in RequestOps =>
             /\ \A g \in ReqIds \ {last'.handle} :
                    /\ requests'[g] = requests[g]
                    /\ (g \in held') <=> (g \in held)
             /\ \A r \in RespIds :
                    responses[r].st # "unallocated" =>
                        (responses'[r] = responses[r] /\ ((r \in heldResp') <=> (r \in heldResp)))
       /\ last'.op \in ResponseAccessors =>
             /\ \A g \in ReqIds :
                    /\ requests'[g] = requests[g]
                    /\ (g \in held') <=> (g \in held)
             /\ \A r \in RespIds \ {last'.handle} :
                    (responses'[r] = responses[r] /\ ((r \in heldResp') <=> (r \in heldResp)))]_vars

C14_Witness ==
    /\ last.op = "decapsulate" /\ last.thread = "B" /\ last.returned
    /\ requests[last.handle].st = "freed"
    /\ \E g \in ReqIds \ {last.handle} :
           /\ g \in held
           /\ requests[g].st = "live"
           /\ requests[g].encapsulated_request = <<1>> \o Shift(Ping, 1)
    /\ \E r \in heldResp : responses[r].st = "live"

\* TRUE when the engine rejects the message under every configuration it
\* accepts.
MessageRejected(msg) ==
    \A k \in KeyIds : ClientRequest_encapsulate([key |-> k], msg).tag = "Err"

\* C15: the configuration is validated before the message: when the engine
\* rejects both, encapsulate records RequestContextInitialization (not
\* EncapsulationFailed); and every call that returns null has called
\* update_last_error exactly once.
C15_ConfigurationFirst ==
    /\ (/\ last.op = "encapsulate"
        /\ ClientRequest_new(last.config).tag = "Err"
        /\ MessageRejected(last.msg)) =>
           /\ last.returned
           /\ last.ret = NULL
           /\ LAST_ERROR[last.thread]
                  = RequestContextInitialization(ClientRequest_new(last.config).val)
           /\ LAST_ERROR[last.thread].kind # "EncapsulationFailed"
           /\ last.writes = 1
    /\ (last.op \in FallibleOps /\ last.returned /\ last.ret = NULL) => last.writes = 1
    /\ (last.op \in FallibleOps /\ last.returned /\ last.ret # NULL) => last.writes = 0

C15_Witness ==
    /\ last.op = "encapsulate" /\ last.returned /\ last.ret = NULL
    /\ last.config = <<>> /\ last.msg = <<RejectByte>>
    /\ LAST_ERROR[last.thread] = RequestContextInitialization("Truncated")
    /\ last.writes = 1

Created(heap) == {h \in DOMAIN heap : heap[h].st # "unallocated"}
Freed(heap) == {h \in DOMAIN heap : heap[h].st = "freed"}

\* C16: a ResponseContext is created only by a decapsulate that returns it
\* and that consumes one live RequestContext, one response per step; a
\* RequestContext becomes live only as the handle a successful encapsulate
\* returns; so the responses ever created never outnumber the requests
\* consumed.
C16_OneResponsePerRequest ==
    /\ [](Cardinality(Created(responses)) <= Cardinality(Freed(requests)))
    /\ [][/\ Created(responses') # Created(responses) =>
                /\ last'.op = "decapsulate"
                /\ last'.returned
                /\ Created(responses') = Created(responses) \cup {last'.ret}
                /\ last'.ret \notin Created(responses)
                /\ requests[last'.handle].st = "live"
                /\ requests'[last'.handle].st = "freed"
                /\ last'.handle \notin held'
          /\ \A h \in ReqIds :
                (requests'[h].st = "live" /\ requests[h].st # "live") =>
                    /\ last'.op = "encapsulate"
                    /\ last'.ret = h
                    /\ requests[h].st = "unallocated"]_vars

C16_Witness ==
    /\ Cardinality(Created(responses)) = 1
    /\ Cardinality(Freed(requests)) = 2
    /\ last.op = "release_request"

KindsOfLib == {"RequestContextInitialization", "EncapsulationFailed", "DecapsulationFailed"}

\* C17: every record in an error slot is of one of the three kinds
\* RequestContextInitialization, EncapsulationFailed, DecapsulationFailed
\* (never InvalidArgument), zero-length inputs included, and the accessors
\* and the release leave every slot as it was.
C17_OnlyThreeKinds ==
    /\ [](\A t \in Threads :
            /\ LAST_ERROR[t].kind \in KindsOfLib \cup {NoError.kind}
            /\ LAST_ERROR[t].kind # InvalidArgument("").kind)
    /\ [][(last'.op \in RequestAccessors \cup ResponseAccessors \cup {"release_request"}) =>
              (LAST_ERROR' = LAST_ERROR /\ last'.writes = 0)]_vars

C17_Witness ==
    /\ last.op = "encapsulate" /\ last.config = <<>> /\ last.msg = <<>>
    /\ LAST_ERROR[last.thread] = RequestContextInitialization("Truncated")
    /\ \E t \in Threads : LAST_ERROR[t] = DecapsulationFailed("Truncated")

\* C18: while a handle is live its buffer does not change, whatever is done
\* to other handles and however often the accessors are called, and every
\* accessor call returns that buffer (at the handle's address) or its
\* length.
C18_AccessorsStable ==
    /\ [][/\ \A h \in ReqIds :
                (requests[h].st = "live" /\ requests'[h].st = "live") =>
                    requests'[h].encapsulated_request = requests[h].encapsulated_request
          /\ \A r \in RespIds :
                (responses[r].st = "live" /\ responses'[r].st = "live") =>
                    responses'[r].response = responses[r].response]_vars
    /\ [][/\ last'.op = "request_data" =>
                last'.data = [addr |-> last'.handle,
                              bytes |-> requests[last'.handle].encapsulated_request]
          /\ last'.op = "request_length" =>
                last'.len = Len(requests[last'.handle].encapsulated_request)
          /\ last'.op = "response_data" =>
                last'.data = [addr |-> last'.handle,
                              bytes |-> responses[last'.handle].response]
          /\ last'.op = "response_length" =>
                last'.len = Len(responses[last'.handle].response)]_vars

C18_Witness ==
    /\ last.op = "response_data"
    /\ last.data = [addr |-> last.handle, bytes |-> Ping]
    /\ responses[last.handle].response = Ping
    /\ \E h \in held : requests[h].st = "live"
    /\ \E h \in ReqIds : requests[h].st = "freed"
====
